---- MODULE Spec2Model ----
(***************************************************************************)
(* Model of argus (src/main.rs): a process monitor with three modes.       *)
(*   pid  <PID>   notify, poll `ps -p PID` once a second, notify           *)
(*   name <NAME>  notify, poll `pgrep NAME` once a second and spawn one    *)
(*                silent pid watcher per matched pid per tick, notify      *)
(*   exec <CMD>   notify, spawn `sh -c CMD`, wait for the child, notify    *)
(* The process table, the two query commands, the child and the Telegram   *)
(* endpoint are the environment; every answer they can give is a           *)
(* nondeterministic choice.                                                *)
(***************************************************************************)
EXTENDS Naturals, Sequences, FiniteSets

\* ------------------------------------------------------------- bounds
MaxPid == 2      \* process ids are 1..MaxPid
MaxPolls == 3    \* polls of the top-level pid watcher in one run
MaxTicks == 3    \* ticks of the name watcher in one run
MaxTasks == 3    \* detached pid watchers spawned in one run
MaxExit == 2     \* exit codes of the exec child are 0..MaxExit
MaxCalls == 3    \* calls of send_telegram_message in a run of the notifier alone

Pids == 1..MaxPid
Modes == {"pid", "name", "exec"}

VARIABLES
    mode,      \* Commands variant chosen on the command line
    target,    \* the pid argument of `pid` mode
    env,       \* which of BOT_TOKEN / CHAT_ID are set
    mainPc,    \* position of main
    calls,     \* messages passed to send_telegram_message, in call order
    notes,     \* requests made by send_telegram_message, in order
    out,       \* lines main's own call chain printed (stdout and stderr)
    alive,     \* the OS process table: pids alive now (all carry the watched name)
    born,      \* pids that have been alive at some time of the run
    pw,        \* the top-level monitor_process_by_pid call
    nw,        \* the monitor_process_by_name call
    tasks,     \* the detached monitor_process_by_pid tasks, in spawn order
    spinner,   \* Spinner objects created / stopped by the top-level watcher
    child,     \* the `sh -c` child of exec mode
    mon        \* the monitor_process task of exec mode

vars == <<mode, target, env, mainPc, calls, notes, out, alive, born, pw, nw, tasks,
          spinner, child, mon>>

\* ------------------------------------------------------------- queries
\* A line of a query's stdout: `num` says whether the trimmed line is a
\* decimal u32, `val` is the pid the line is about.
Line(num, val) == [num |-> num, val |-> val]

\* Result of std::process::Command::output(): Err, or Ok with the stdout lines.
QueryErr == [ok |-> FALSE, stdout |-> <<>>]
QueryOk(lines) == [ok |-> TRUE, stdout |-> lines]

\* Ascending sequence of the elements of a finite set of numbers.
RECURSIVE SortedSeq(_)
SortedSeq(S) ==
    IF S = {} THEN <<>>
    ELSE LET m == CHOOSE x \in S : \A y \in S : x <= y
         IN <<m>> \o SortedSeq(S \ {m})

\* stdout of `ps -p <pid>`, the only part of the output the watcher reads: ps
\* writes its column header ("PID TTY TIME CMD") whether or not a process is
\* selected, then one row per selected process; that no process was selected
\* shows in the exit status alone, which the watcher does not look at.
PsStdout(pid, table) ==
    <<Line(FALSE, 0)>> \o (IF pid \in table THEN <<Line(FALSE, pid)>> ELSE <<>>)

\* stdout of `pgrep <name>`: one line per matching process, its pid; nothing
\* when no process matches.
RECURSIVE PidLines(_)
PidLines(s) ==
    IF s = <<>> THEN <<>> ELSE <<Line(TRUE, Head(s))>> \o PidLines(Tail(s))

PgrepStdout(table) == PidLines(SortedSeq(table))

\* What the ps query of one poll can answer.
PsResults(pid, table) == {QueryErr, QueryOk(PsStdout(pid, table))}

\* What the pgrep query of one tick can answer.
PgrepResults(table) == {QueryErr, QueryOk(PgrepStdout(table))}

\* Mutant: the guard negated, an empty stdout taken for a live process.
PidQueryAlive_Inverted(res) == res.ok /\ res.stdout = <<>>

\* Mutant: a query that failed to execute taken for a live process (retry).
PidQueryAlive_ErrIsAlive(res) == ~res.ok \/ res.stdout # <<>>

\* The guard of the first match arm of monitor_process_by_pid:
\* Ok(output) if !output.stdout.is_empty().
PidQueryAlive(res) == res.ok /\ res.stdout # <<>>

\* output_str.lines().filter_map(|l| l.trim().parse::<u32>().ok()).collect()
RECURSIVE ParsePids(_)
ParsePids(lines) ==
    IF lines = <<>> THEN <<>>
    ELSE (IF Head(lines).num THEN <<Head(lines).val>> ELSE <<>>)
         \o ParsePids(Tail(lines))

\* ------------------------------------------------------------- notifier
\* Mutant: a message that was already sent is suppressed.
Notify_Dedup(msg, ok) ==
    IF \E i \in 1..Len(notes) : notes[i].msg = msg THEN notes
    ELSE Append(notes, [msg |-> msg, ok |-> ok])

\* send_telegram_message: one POST per call; a failure is printed, nothing else.
Notify(msg, ok) == Append(notes, [msg |-> msg, ok |-> ok])

\* ------------------------------------------------------------- initial state
PwInit ==
    [pc |-> "idle", polls |-> 0, sleeps |-> 0, alivePolls |-> 0,
     last |-> "none", sawAlive |-> FALSE, outcome |-> "none"]

\* seen, lastOk, emptyFirst, before and afterPanic record what the environment
\* did (the match set of every tick, whether the last lookup executed, whether
\* the first tick matched nothing, the number of tasks before the last tick,
\* whether a task had panicked before the last tick).
NwInit ==
    [pc |-> "idle", ticks |-> 0, sleeps |-> 0, seen |-> <<>>, lastOk |-> TRUE,
     emptyFirst |-> FALSE, before |-> 0, afterPanic |-> FALSE,
     outcome |-> "none"]

Init ==
    /\ mode \in Modes
    /\ target \in Pids
    /\ env \in [token : BOOLEAN, chat : BOOLEAN]
    /\ mainPc = "start"
    /\ calls = <<>>
    /\ notes = <<>>
    /\ out = <<>>
    /\ alive \in SUBSET Pids
    /\ (mode = "exec" => alive = {})
    /\ (mode # "pid" => target = 1)
    /\ born = alive
    /\ pw = PwInit
    /\ nw = NwInit
    /\ tasks = <<>>
    /\ spinner = [created |-> 0, stopped |-> 0]
    /\ child = [state |-> "none", code |-> 0]
    /\ mon = [pc |-> "none", class |-> "none", waitOk |-> TRUE]

\* ------------------------------------------------------------- helpers
StartMsg(m) ==
    CASE m = "pid"  -> "Starting to monitor PID"
      [] m = "name" -> "Monitoring processes named"
      [] m = "exec" -> "Starting command"

EndMsg(m) ==
    CASE m = "pid"  -> "Process has finished"
      [] m = "name" -> "Processes have finished"
      [] m = "exec" -> "Command has finished"

\* What send_telegram_message prints: a line on stderr when the POST failed.
NotifyOut(ok) == IF ok THEN out ELSE Append(out, "Failed to send Telegram message")

\* One call send_telegram_message(bot_token, chat_id, msg).await whose POST
\* succeeds (ok) or fails.
SendTelegramMessage(msg, ok) ==
    /\ calls' = Append(calls, msg)
    /\ notes' = Notify(msg, ok)
    /\ out' = NotifyOut(ok)

\* Mutant: CHAT_ID is read with a default instead of expect().
EnvReady_TokenOnly(e) == e.token

\* Both env::var(..).expect(..) calls of main return.
EnvReady(e) == e.token /\ e.chat

\* Mutant: a failed delivery is escalated, main stops.
AfterNotifyPc_RaiseOnFailure(pc, m, ok) ==
    IF ~ok THEN "aborted"
    ELSE IF pc = "notify_end" THEN "done"
    ELSE IF m = "exec" THEN "spawn" ELSE "watch"

\* Where main goes after a send_telegram_message(..).await: the call returns (),
\* so the next statement of the arm, whatever the delivery did.
AfterNotifyPc(pc, m, ok) ==
    IF pc = "notify_end" THEN "done"
    ELSE IF m = "exec" THEN "spawn" ELSE "watch"

\* Mutant: is_silent ignored, every watcher creates a spinner.
SpinnersFor_Always(is_silent) == 1

\* Number of Spinner objects monitor_process_by_pid creates (is_silent => None).
SpinnersFor(is_silent) == IF is_silent THEN 0 ELSE 1

\* A history counter that stops counting at its bound.
Bump(n, max) == IF n < max THEN n + 1 ELSE n

\* Number of spinner.stop() calls of one iteration of monitor_process_by_pid:
\* one in the terminating arm if a spinner exists (if let Some(..) = sp).
PidStops(next, is_silent) == IF next = "done" /\ ~is_silent THEN 1 ELSE 0

\* Mutant: the Err arm leaves the loop without stopping the spinner.
NameStops_NotOnError(kind) == IF kind = "empty" THEN 1 ELSE 0

\* Number of sp.stop() calls of one tick of monitor_process_by_name: one in the
\* empty arm, one in the Err arm, none when it fans out.
NameStops(kind) == IF kind \in {"empty", "err"} THEN 1 ELSE 0

\* Mutant: the Err arm returns early out of main, past the last notification.
AfterNameWatchPc_ErrorSkipsEnd(kind) ==
    CASE kind = "some" -> "watch"
      [] kind = "empty" -> "notify_end"
      [] kind = "err" -> "done"

\* Where main is after one tick of monitor_process_by_name: still in the call,
\* or, after either break, at the send_telegram_message that follows the call.
AfterNameWatchPc(kind) == IF kind = "some" THEN "watch" ELSE "notify_end"

\* Mutant: the panic of a spawned task is propagated (the handle is joined and
\* unwrapped), main stops.
OnTaskPanic_Propagates(pc) == "aborted"

\* What the panic of a task spawned with `let _ = task::spawn(..)` does to main:
\* nothing, the runtime keeps the panic in the dropped JoinHandle.
OnTaskPanic(pc) == pc

\* Where one iteration of the loop of monitor_process_by_pid goes after the query.
PidPollPc(res) == IF PidQueryAlive(res) THEN "sleep" ELSE "done"

\* Mutant: a pid that already has a watcher is not given another one.
RECURSIVE SpawnAll_DedupFrom(_, _)
SpawnAll_DedupFrom(pids, watched) ==
    IF pids = <<>> THEN <<>>
    ELSE (IF Head(pids) \in watched THEN <<>>
          ELSE <<[pid |-> Head(pids), pc |-> "poll", sp |-> SpinnersFor(TRUE)]>>)
         \o SpawnAll_DedupFrom(Tail(pids), watched \cup {Head(pids)})

SpawnAll_Dedup(pids) ==
    SpawnAll_DedupFrom(pids, {tasks[i].pid : i \in 1..Len(tasks)})

\* task::spawn(monitor_process_by_pid(pid, Some(true))) for every parsed pid.
RECURSIVE SpawnAll(_)
SpawnAll(pids) ==
    IF pids = <<>> THEN <<>>
    ELSE <<[pid |-> Head(pids), pc |-> "poll", sp |-> SpinnersFor(TRUE)]>>
         \o SpawnAll(Tail(pids))

\* Mutant: the watcher returns only once the watchers it spawned have ended.
NameTickKind_WaitsForTasks(res) ==
    IF ~res.ok THEN "err"
    ELSE IF /\ ParsePids(res.stdout) = <<>>
            /\ \A i \in 1..Len(tasks) : tasks[i].pc \in {"done", "panicked"}
         THEN "empty" ELSE "some"

\* Mutant: the is_empty test dropped, an empty pid list fans out (to nothing).
NameTickKind_EmptyFansOut(res) == IF ~res.ok THEN "err" ELSE "some"

\* Mutant: a lookup that failed to execute taken for an empty pid list.
NameTickKind_ErrIsEmpty(res) ==
    IF ~res.ok \/ ParsePids(res.stdout) = <<>> THEN "empty" ELSE "some"

\* The match of monitor_process_by_name on the lookup result: Err(_), an empty
\* pid list, or a pid list to fan out.
NameTickKind(res) ==
    IF ~res.ok THEN "err"
    ELSE IF ParsePids(res.stdout) = <<>> THEN "empty" ELSE "some"

\* Mutant: the final notification placed after the match, so sent on Err too.
AfterSpawnPc_AlwaysEnd(spawned) == IF spawned THEN "join" ELSE "notify_end"

\* Where main goes after execute_and_monitor_command: Ok(child) spawns and awaits
\* the monitor task, Err(e) prints and falls out of the match.
AfterSpawnPc(spawned) == IF spawned THEN "join" ELSE "done"

\* Mutant: every status that was collected counts as success.
StatusSuccess_Any(status) == status >= 0

\* ExitStatus::success() on the raw wait status.
StatusSuccess(status) == status = 0

\* What child.wait().await can answer. It returns once the child is gone: Ok
\* with the status, or Err when the status cannot be collected.
WaitResults(c) == {[ok |-> TRUE, status |-> c.code], [ok |-> FALSE, status |-> 0]}

\* ------------------------------------------------------------- main
\* Cli::parse, then the two env::var(..).expect(..) calls.
MainStart ==
    /\ mainPc = "start"
    /\ IF EnvReady(env)
       THEN /\ mainPc' = "notify_start"
            /\ out' = out
       ELSE /\ mainPc' = "aborted"
            /\ out' = Append(out, IF env.token THEN "CHAT_ID not set"
                                               ELSE "BOT_TOKEN not set")
    /\ UNCHANGED <<mode, target, env, calls, notes, alive, born, pw, nw, tasks,
                   spinner, child, mon>>

\* The first send_telegram_message(..).await of the chosen arm.
NotifyStart ==
    /\ mainPc = "notify_start"
    /\ \E ok \in BOOLEAN :
          /\ SendTelegramMessage(StartMsg(mode), ok)
          /\ mainPc' = AfterNotifyPc(mainPc, mode, ok)
    /\ UNCHANGED <<mode, target, env, alive, born, pw, nw, tasks, spinner,
                   child, mon>>

\* The last send_telegram_message(..).await of the chosen arm; main returns.
NotifyEnd ==
    /\ mainPc = "notify_end"
    /\ \E ok \in BOOLEAN :
          /\ SendTelegramMessage(EndMsg(mode), ok)
          /\ mainPc' = AfterNotifyPc(mainPc, mode, ok)
    /\ UNCHANGED <<mode, target, env, alive, born, pw, nw, tasks, spinner,
                   child, mon>>

\* ------------------------------------------------------------- pid watcher
\* monitor_process_by_pid(pid, None) up to the loop: the spinner is created.
PwStart ==
    /\ mode = "pid"
    /\ mainPc = "watch"
    /\ pw.pc = "idle"
    /\ pw' = [pw EXCEPT !.pc = "poll"]
    /\ spinner' = [spinner EXCEPT !.created = @ + SpinnersFor(FALSE)]
    /\ UNCHANGED <<mode, target, env, calls, mainPc, notes, out, alive, born, nw,
                   tasks, child, mon>>

\* One iteration of the loop: the ps query and the match on its result. `free`
\* lifts the bound on the number of polls (the history counters then stop at it).
PwStep(free) ==
    /\ pw.pc = "poll"
    /\ free \/ pw.polls < MaxPolls
    /\ \E res \in PsResults(target, alive) :
          LET next == PidPollPc(res) IN
          /\ pw' = [pc |-> next,
                    polls |-> Bump(pw.polls, MaxPolls),
                    sleeps |-> IF next = "sleep" THEN Bump(pw.sleeps, MaxPolls)
                               ELSE pw.sleeps,
                    alivePolls |-> IF target \in alive
                                   THEN Bump(pw.alivePolls, MaxPolls)
                                   ELSE pw.alivePolls,
                    last |-> IF res.ok THEN "ok" ELSE "err",
                    sawAlive |-> target \in alive,
                    outcome |-> IF next = "done" THEN "Terminated" ELSE "none"]
          /\ spinner' = [spinner EXCEPT !.stopped = @ + PidStops(next, FALSE)]
          /\ out' = IF next = "done"
                    THEN Append(out, "Process with PID has terminated") ELSE out
          /\ mainPc' = IF next = "done" THEN "notify_end" ELSE mainPc
    /\ UNCHANGED <<mode, target, env, calls, notes, alive, born, nw, tasks,
                   child, mon>>

PwPoll == PwStep(FALSE)

PwPollFree == PwStep(TRUE)

\* Mutant: the loop is not left after the report, the watcher polls on.
PwWake_AfterDone ==
    /\ pw.pc \in {"sleep", "done"}
    /\ pw' = [pw EXCEPT !.pc = "poll"]
    /\ UNCHANGED <<mode, target, env, calls, mainPc, notes, out, alive, born, nw,
                   tasks, spinner, child, mon>>

\* sleep(wait_time).await returns.
PwWake ==
    /\ pw.pc = "sleep"
    /\ pw' = [pw EXCEPT !.pc = "poll"]
    /\ UNCHANGED <<mode, target, env, calls, mainPc, notes, out, alive, born, nw,
                   tasks, spinner, child, mon>>

\* ------------------------------------------------------------- name watcher
\* monitor_process_by_name up to the loop: the spinner is created.
NwStart ==
    /\ mode = "name"
    /\ mainPc = "watch"
    /\ nw.pc = "idle"
    /\ nw' = [nw EXCEPT !.pc = "poll"]
    /\ spinner' = [spinner EXCEPT !.created = @ + 1]
    /\ UNCHANGED <<mode, target, env, calls, mainPc, notes, out, alive, born, pw,
                   tasks, child, mon>>

\* One tick of the loop: the pgrep query, the parse, the fan-out or the exit.
\* `free` lifts the bounds on ticks and tasks: the history then keeps the latest
\* tick in its last place and watchers beyond MaxTasks are not tracked.
NwStep(free) ==
    /\ nw.pc = "poll"
    /\ free \/ (nw.ticks < MaxTicks /\ Len(tasks) + Cardinality(alive) <= MaxTasks)
    /\ \E res \in PgrepResults(alive) :
          LET kind == NameTickKind(res)
              pids == IF kind = "some" THEN ParsePids(res.stdout) ELSE <<>>
              match == IF res.ok THEN alive ELSE {}
          IN
          /\ nw' = [pc |-> IF kind = "some" THEN "sleep" ELSE "done",
                    ticks |-> Bump(nw.ticks, MaxTicks),
                    sleeps |-> IF kind = "some" THEN Bump(nw.sleeps, MaxTicks)
                               ELSE nw.sleeps,
                    seen |-> IF nw.ticks < MaxTicks THEN Append(nw.seen, match)
                             ELSE [nw.seen EXCEPT ![MaxTicks] = match],
                    lastOk |-> res.ok,
                    emptyFirst |-> IF nw.ticks = 0 THEN res.ok /\ alive = {}
                                   ELSE nw.emptyFirst,
                    before |-> Len(tasks),
                    afterPanic |-> \E i \in 1..Len(tasks) :
                                      tasks[i].pc = "panicked",
                    outcome |-> CASE kind = "err" -> "Error"
                                  [] kind = "empty" -> "Terminated"
                                  [] kind = "some" -> "none"]
          /\ tasks' = IF Len(tasks) + Cardinality(alive) <= MaxTasks
                      THEN tasks \o SpawnAll(pids) ELSE tasks
          /\ spinner' = [spinner EXCEPT !.stopped = @ + NameStops(kind)]
          /\ out' = CASE kind = "err" -> Append(out, "Error retrieving process list")
                      [] kind = "empty" ->
                           Append(out, "All processes named have terminated")
                      [] kind = "some" -> out
          /\ mainPc' = AfterNameWatchPc(kind)
    /\ UNCHANGED <<mode, target, env, calls, notes, alive, born, pw, child, mon>>

NwPoll == NwStep(FALSE)

NwPollFree == NwStep(TRUE)

\* sleep(wait_time).await at the end of the loop body returns.
NwWake ==
    /\ nw.pc = "sleep"
    /\ nw' = [nw EXCEPT !.pc = "poll"]
    /\ UNCHANGED <<mode, target, env, calls, mainPc, notes, out, alive, born, pw,
                   tasks, spinner, child, mon>>

\* ------------------------------------------------------------- detached tasks
\* The runtime is dropped when main returns: detached tasks run only until then.
RuntimeUp == mainPc \notin {"done", "aborted"}

\* One iteration of the loop of a detached monitor_process_by_pid(pid, Some(true)).
TaskPoll(i) ==
    /\ RuntimeUp
    /\ tasks[i].pc = "poll"
    /\ \E res \in PsResults(tasks[i].pid, alive) :
          tasks' = [tasks EXCEPT ![i].pc = PidPollPc(res)]
    /\ UNCHANGED <<mode, target, env, calls, mainPc, notes, out, alive, born, pw, nw,
                   spinner, child, mon>>

\* A detached watcher that has not returned panics; the task ends there.
TaskPanic(i) ==
    /\ RuntimeUp
    /\ tasks[i].pc \in {"poll", "sleep"}
    /\ tasks' = [tasks EXCEPT ![i].pc = "panicked"]
    /\ mainPc' = OnTaskPanic(mainPc)
    /\ UNCHANGED <<mode, target, env, calls, notes, out, alive, born, pw, nw,
                   spinner, child, mon>>

\* The sleep of a detached watcher returns.
TaskWake(i) ==
    /\ RuntimeUp
    /\ tasks[i].pc = "sleep"
    /\ tasks' = [tasks EXCEPT ![i].pc = "poll"]
    /\ UNCHANGED <<mode, target, env, calls, mainPc, notes, out, alive, born, pw, nw,
                   spinner, child, mon>>

\* ------------------------------------------------------------- exec
\* execute_and_monitor_command and the match on its result: on Ok the
\* monitor_process task is spawned, on Err the failure is printed and main returns.
ExecSpawn ==
    /\ mainPc = "spawn"
    /\ \E spawned \in BOOLEAN :
          /\ mainPc' = AfterSpawnPc(spawned)
          /\ IF spawned
             THEN /\ child' = [state |-> "running", code |-> 0]
                  /\ out' = Append(out, "Started command")
                  /\ mon' = [pc |-> "wait", class |-> "none", waitOk |-> TRUE]
             ELSE /\ child' = [state |-> "failed", code |-> 0]
                  /\ out' = Append(out, "Failed to execute command")
                  /\ UNCHANGED mon
    /\ UNCHANGED <<mode, target, env, calls, notes, alive, born, pw, nw, tasks, spinner>>

\* monitor_process: child.wait().await returns and the result is classified.
MonitorWait ==
    /\ mon.pc = "wait"
    /\ child.state = "exited"
    /\ \E res \in WaitResults(child) :
          /\ mon' = [pc |-> "done",
                     waitOk |-> res.ok,
                     class |-> IF ~res.ok THEN "none"
                               ELSE IF StatusSuccess(res.status) THEN "Success"
                               ELSE "Failure"]
          /\ out' = Append(out, IF ~res.ok THEN "Error waiting for process to finish"
                                ELSE IF StatusSuccess(res.status)
                                     THEN "Process finished successfully"
                                     ELSE "Process finished with an error")
    /\ UNCHANGED <<mode, target, env, calls, mainPc, notes, alive, born, pw, nw, tasks,
                   spinner, child>>

\* Mutant: the monitor task is spawned but not awaited.
MainJoin_NoAwait ==
    /\ mainPc = "join"
    /\ mainPc' = "notify_end"
    /\ UNCHANGED <<mode, target, env, calls, notes, out, alive, born, pw, nw, tasks,
                   spinner, child, mon>>

\* monitor_task.await.unwrap() returns.
MainJoin ==
    /\ mainPc = "join"
    /\ mon.pc = "done"
    /\ mainPc' = "notify_end"
    /\ UNCHANGED <<mode, target, env, calls, notes, out, alive, born, pw, nw, tasks,
                   spinner, child, mon>>

\* ------------------------------------------------------------- environment
\* A process of the table exits.
ProcExit(p) ==
    /\ mode # "exec"
    /\ RuntimeUp
    /\ p \in alive
    /\ alive' = alive \ {p}
    /\ UNCHANGED <<mode, target, env, calls, mainPc, notes, out, born, pw, nw, tasks,
                   spinner, child, mon>>

\* A new process (carrying the watched name) appears under an unused pid.
ProcStart(p) ==
    /\ mode # "exec"
    /\ RuntimeUp
    /\ p \notin born
    /\ alive' = alive \cup {p}
    /\ born' = born \cup {p}
    /\ UNCHANGED <<mode, target, env, calls, mainPc, notes, out, pw, nw, tasks,
                   spinner, child, mon>>

\* The exec child exits with a raw wait status.
ChildExit(status) ==
    /\ child.state = "running"
    /\ child' = [state |-> "exited", code |-> status]
    /\ UNCHANGED <<mode, target, env, calls, mainPc, notes, out, alive, born, pw, nw,
                   tasks, spinner, mon>>

\* ------------------------------------------------------------- specification
Next ==
    \/ MainStart
    \/ NotifyStart
    \/ NotifyEnd
    \/ PwStart
    \/ PwPoll
    \/ PwWake
    \/ NwStart
    \/ NwPoll
    \/ NwWake
    \/ \E i \in 1..Len(tasks) : TaskPoll(i)
    \/ \E i \in 1..Len(tasks) : TaskWake(i)
    \/ \E i \in 1..Len(tasks) : TaskPanic(i)
    \/ ExecSpawn
    \/ MonitorWait
    \/ MainJoin
    \/ \E p \in Pids : ProcExit(p)
    \/ \E p \in Pids : ProcStart(p)
    \/ \E status \in 0..MaxExit : ChildExit(status)

Spec == Init /\ [][Next]_vars

\* The same program with the bounds on polls, ticks and tasks lifted, under the
\* scheduling the runtime gives: every step of main's call chain and of a
\* spawned task that can be taken is taken eventually (a sleep ends, a query
\* and a POST return). The environment owes nothing: processes need not exit,
\* the child need not exit, queries need not fail.
FairNext ==
    \/ MainStart
    \/ NotifyStart
    \/ NotifyEnd
    \/ PwStart
    \/ PwPollFree
    \/ PwWake
    \/ NwStart
    \/ NwPollFree
    \/ NwWake
    \/ \E i \in 1..Len(tasks) : TaskPoll(i)
    \/ \E i \in 1..Len(tasks) : TaskWake(i)
    \/ \E i \in 1..Len(tasks) : TaskPanic(i)
    \/ ExecSpawn
    \/ MonitorWait
    \/ MainJoin
    \/ \E p \in Pids : ProcExit(p)
    \/ \E p \in Pids : ProcStart(p)
    \/ \E status \in 0..MaxExit : ChildExit(status)

FairSpec ==
    /\ Init
    /\ [][FairNext]_vars
    /\ WF_vars(MainStart)
    /\ WF_vars(NotifyStart)
    /\ WF_vars(NotifyEnd)
    /\ WF_vars(PwStart)
    /\ WF_vars(PwPollFree)
    /\ WF_vars(PwWake)
    /\ WF_vars(NwStart)
    /\ WF_vars(NwPollFree)
    /\ WF_vars(NwWake)
    /\ WF_vars(ExecSpawn)
    /\ WF_vars(MonitorWait)
    /\ WF_vars(MainJoin)

\* The notifier alone: send_telegram_message called with any messages.
Messages == {StartMsg(m) : m \in Modes} \cup {EndMsg(m) : m \in Modes}

NotifierInit ==
    /\ mode = "pid"
    /\ target = 1
    /\ env = [token |-> TRUE, chat |-> TRUE]
    /\ mainPc = "notifier"
    /\ calls = <<>>
    /\ notes = <<>>
    /\ out = <<>>
    /\ alive = {}
    /\ born = {}
    /\ pw = PwInit
    /\ nw = NwInit
    /\ tasks = <<>>
    /\ spinner = [created |-> 0, stopped |-> 0]
    /\ child = [state |-> "none", code |-> 0]
    /\ mon = [pc |-> "none", class |-> "none", waitOk |-> TRUE]

NotifierCall ==
    /\ mainPc = "notifier"
    /\ Len(calls) < MaxCalls
    /\ \E msg \in Messages, ok \in BOOLEAN : SendTelegramMessage(msg, ok)
    /\ UNCHANGED <<mode, target, env, mainPc, alive, born, pw, nw, tasks,
                   spinner, child, mon>>

NotifierSpec == NotifierInit /\ [][NotifierCall]_vars

\* ------------------------------------------------------------- properties
\* The texts of the notifications requested so far, in order.
Msgs == [i \in 1..Len(notes) |-> notes[i].msg]

\* The lines main's call chain printed, as a set.
Printed == {out[i] : i \in 1..Len(out)}

\* The pids of the detached watchers, in spawn order.
TaskPids == [i \in 1..Len(tasks) |-> tasks[i].pid]

\* One watcher per pid of every tick's match set, tick after tick.
RECURSIVE FanOut(_)
FanOut(seen) ==
    IF seen = <<>> THEN <<>> ELSE SortedSeq(Head(seen)) \o FanOut(Tail(seen))

\* Number of ticks whose match set was not empty.
RECURSIVE NonEmptyTicks(_)
NonEmptyTicks(seen) ==
    IF seen = <<>> THEN 0
    ELSE (IF Head(seen) # {} THEN 1 ELSE 0) + NonEmptyTicks(Tail(seen))

\* The pid given to `pid` mode has not been a live process at any time of the run.
NeverLive == mode = "pid" /\ target \notin born

\* C1: in pid mode, for a pid that is no live process, the run sends exactly one
\* "started" and one "finished" notification, in that order, the "finished" one
\* only after the pid watcher returned Terminated: once the watcher has polled,
\* the run is at or past its "finished" notification, and a finished run has
\* sent exactly the two.
C1_DeadPidStartedThenFinished ==
    NeverLive =>
        /\ (pw.polls >= 1 => mainPc \in {"notify_end", "done"})
        /\ (mainPc = "done" => Msgs = <<StartMsg("pid"), EndMsg("pid")>>)
        /\ (Len(notes) = 2 => pw.outcome = "Terminated")
        /\ Len(notes) <= 2

\* C2: for a pid that is no live process when the watch starts,
\* monitor_process_by_pid reports Terminated on its first poll, without sleeping.
C2_DeadPidFirstPollTerminates ==
    NeverLive =>
        /\ pw.sleeps = 0
        /\ (pw.polls >= 1 =>
               pw.pc = "done" /\ pw.outcome = "Terminated" /\ pw.polls = 1)

\* C3: no premature termination: a poll whose query executed and at which the
\* pid was alive never makes monitor_process_by_pid return, so a watcher that
\* returned with every query executed has polled more often than the polls at
\* which the pid was alive.
C3_NoPrematureTermination ==
    mode = "pid" =>
        /\ (pw.last = "ok" /\ pw.sawAlive =>
               pw.pc \in {"sleep", "poll"} /\ pw.outcome = "none"
               /\ mainPc = "watch")
        /\ (pw.pc = "done" /\ pw.last = "ok" => pw.polls >= pw.alivePolls + 1)
        /\ pw.polls >= pw.alivePolls

\* C3 witness: the pid was alive at two polls, has disappeared, and the watcher
\* has polled again, every query having executed.
C3_Witness ==
    /\ mode = "pid"
    /\ pw.last = "ok"
    /\ pw.alivePolls >= 2
    /\ target \notin alive
    /\ pw.polls = pw.alivePolls + 1

\* C4: with zero matching pids at the first tick, monitor_process_by_name
\* returns Terminated on that tick, having spawned no watcher and not slept.
C4_EmptyFirstTick ==
    mode = "name" /\ nw.emptyFirst =>
        /\ nw.pc = "done"
        /\ nw.outcome = "Terminated"
        /\ nw.ticks = 1
        /\ nw.sleeps = 0
        /\ tasks = <<>>
        /\ mainPc \in {"notify_end", "done"}

\* C4 witness: the first tick matched nothing and the watcher has returned.
C4_Witness ==
    /\ mode = "name"
    /\ nw.emptyFirst
    /\ nw.ticks = 1
    /\ nw.pc = "done"

\* C5: every tick with a non-empty match list spawns exactly one silent pid
\* watcher per matched pid, already watched or not, and the name watcher then
\* sleeps and polls again; the watchers spawned over the run are the match
\* lists of all ticks, one after the other.
C5_OneWatcherPerMatchPerTick ==
    mode = "name" =>
        /\ TaskPids = FanOut(nw.seen)
        /\ \A i \in 1..Len(tasks) : tasks[i].sp = 0
        /\ nw.sleeps = NonEmptyTicks(nw.seen)
        /\ (nw.ticks >= 1 /\ nw.seen[nw.ticks] # {} =>
               /\ nw.pc \in {"sleep", "poll"}
               /\ Len(tasks) = nw.before + Cardinality(nw.seen[nw.ticks]))

\* C5 witness: two ticks matched, a pid of the first tick was matched again and
\* has two watchers, and the name watcher is polling again.
C5_Witness ==
    /\ mode = "name"
    /\ nw.ticks >= 2
    /\ nw.pc = "poll"
    /\ Len(tasks) >= 3
    /\ \E i, j \in 1..Len(tasks) : i < j /\ tasks[i].pid = tasks[j].pid

\* C6: when the name lookup fails to execute on a tick, monitor_process_by_name
\* stops its indicator, reports the Error outcome (not the all-terminated one),
\* spawns nothing on that tick and leaves its loop.
C6_LookupErrorIsError ==
    mode = "name" /\ ~nw.lastOk =>
        /\ nw.pc = "done"
        /\ nw.outcome = "Error"
        /\ spinner.stopped = 1
        /\ "Error retrieving process list" \in Printed
        /\ "All processes named have terminated" \notin Printed
        /\ Len(tasks) = nw.before
        /\ ~ENABLED NwPoll
        /\ ~ENABLED NwWake

\* C6 witness: the lookup failed on a later tick, while matching processes
\* were alive and watchers had been spawned.
C6_Witness ==
    /\ mode = "name"
    /\ ~nw.lastOk
    /\ nw.ticks >= 2
    /\ alive # {}
    /\ Len(tasks) >= 1

\* C7: in the pid watcher a query that fails to execute is handled like an
\* empty result: on that poll the watcher reports Terminated and returns, alive
\* process or not, with no retry and no other outcome.
C7_QueryErrorIsTermination ==
    mode = "pid" /\ pw.last = "err" =>
        /\ pw.pc = "done"
        /\ pw.outcome = "Terminated"
        /\ spinner.stopped = 1
        /\ "Process with PID has terminated" \in Printed
        /\ mainPc \in {"notify_end", "done"}
        /\ ~ENABLED PwPoll
        /\ PidPollPc(QueryErr) = PidPollPc(QueryOk(<<>>))

\* C7 witness: the query failed at a poll at which the pid was alive, after
\* an earlier poll, and the pid is still alive.
C7_Witness ==
    /\ mode = "pid"
    /\ pw.last = "err"
    /\ pw.sawAlive
    /\ target \in alive
    /\ pw.polls >= 2

\* C8: in exec mode with a successful spawn, two notifications bracket the
\* run: "started" is sent before the spawn is attempted, "finished" only after
\* the child has exited, whatever its status.
C8_NotificationsBracketRun ==
    mode = "exec" =>
        /\ (mainPc = "spawn" => Msgs = <<StartMsg("exec")>> /\ child.state = "none")
        /\ (child.state # "none" => Len(notes) >= 1 /\ Msgs[1] = StartMsg("exec"))
        /\ (Len(notes) = 2 =>
               /\ Msgs = <<StartMsg("exec"), EndMsg("exec")>>
               /\ child.state = "exited"
               /\ mon.pc = "done")
        /\ (mainPc = "done" /\ child.state \in {"running", "exited"} =>
               Len(notes) = 2)
        /\ Len(notes) <= 2

\* C8 witness: a spawned child exited with a nonzero status and the run ended.
C8_Witness ==
    /\ mode = "exec"
    /\ mainPc = "done"
    /\ child.state = "exited"
    /\ child.code # 0
    /\ Len(notes) = 2

\* C9: in exec mode, when the spawn fails, no monitor task is created, the
\* failure is printed, and "started" is the only notification of the run.
C9_SpawnFailure ==
    mode = "exec" /\ child.state = "failed" =>
        /\ mainPc = "done"
        /\ mon.pc = "none"
        /\ "Failed to execute command" \in Printed
        /\ Msgs = <<StartMsg("exec")>>
        /\ ~ENABLED NotifyEnd

\* C9 witness: the spawn failed and main has returned.
C9_Witness ==
    /\ mode = "exec"
    /\ child.state = "failed"
    /\ mainPc = "done"

\* C10 as stated: monitor_process yields one classification per child, Success
\* exactly for status 0 and Failure for every other status.
C10_OneClassificationPerChild ==
    mon.pc = "done" =>
        /\ (mon.class = "Success" <=> child.code = 0)
        /\ (mon.class = "Failure" <=> child.code # 0)

\* C10 amended: monitor_process waits for the child's exit without polling; when
\* the wait returns a status it yields one classification, Success exactly for
\* status 0 and Failure for every other status; when the wait itself fails it
\* yields none and prints an error.
C10_ClassificationWhenWaitSucceeds ==
    /\ (mon.pc = "wait" => mon.class = "none")
    /\ (mon.pc = "done" =>
           /\ child.state = "exited"
           /\ (mon.waitOk =>
                  /\ (mon.class = "Success" <=> child.code = 0)
                  /\ (mon.class = "Failure" <=> child.code # 0)
                  /\ ("Process finished successfully" \in Printed
                         <=> child.code = 0)
                  /\ ("Process finished with an error" \in Printed
                         <=> child.code # 0))
           /\ (~mon.waitOk =>
                  /\ mon.class = "none"
                  /\ "Error waiting for process to finish" \in Printed))

\* C10 witness: the wait returned a nonzero status and the child was classified.
C10_Witness ==
    /\ mon.pc = "done"
    /\ mon.waitOk
    /\ child.code = MaxExit
    /\ mon.class = "Failure"

\* C11: if BOT_TOKEN or CHAT_ID is missing the run aborts at startup in every
\* mode: no notification is sent, no watcher is started, no command is spawned.
C11_MissingEnvAborts ==
    ~(env.token /\ env.chat) /\ mainPc # "notifier" =>
        /\ mainPc \in {"start", "aborted"}
        /\ calls = <<>>
        /\ notes = <<>>
        /\ pw = PwInit
        /\ nw = NwInit
        /\ tasks = <<>>
        /\ spinner = [created |-> 0, stopped |-> 0]
        /\ child.state = "none"
        /\ mon.pc = "none"
        /\ (mainPc = "aborted" => ~ENABLED Next)

\* C11 witness: the token is set, the chat id is not, and main has aborted.
C11_Witness ==
    /\ env.token
    /\ ~env.chat
    /\ mainPc = "aborted"
    /\ out # <<>>

\* Number of send_telegram_message calls main has made when it is at a position.
AttemptsAt(pc) ==
    CASE pc \in {"start", "notify_start"} -> 0
      [] pc \in {"watch", "spawn", "join", "notify_end"} -> 1
      [] pc = "done" -> IF child.state = "failed" THEN 1 ELSE 2
      [] OTHER -> 0

\* C12: a delivery failure never changes the watch: the number and order of the
\* notification attempts depend on main's position alone, not on which
\* deliveries failed; a step that sends a notification moves main where a
\* successful delivery moves it and touches no watcher, task or child; nothing
\* is retried and nothing is raised.
C12_DeliveryFailureChangesNothing ==
    /\ [](EnvReady(env) =>
            /\ mainPc # "aborted"
            /\ Len(notes) = AttemptsAt(mainPc)
            /\ Msgs = calls
            /\ \A i \in 1..Len(notes) :
                  notes[i].msg = IF i = 1 THEN StartMsg(mode) ELSE EndMsg(mode))
    /\ [][notes' # notes =>
            /\ Len(notes') = Len(notes) + 1
            /\ mainPc' = AfterNotifyPc(mainPc, mode, TRUE)
            /\ out' \in {out, Append(out, "Failed to send Telegram message")}
            /\ UNCHANGED <<alive, born, pw, nw, tasks, spinner, child, mon>>]_vars

\* C12 witness: both deliveries of a name watch failed; the watch went through
\* two ticks, spawned watchers, ended, and both attempts were made.
C12_Witness ==
    /\ mode = "name"
    /\ mainPc = "done"
    /\ Len(notes) = 2
    /\ ~notes[1].ok
    /\ ~notes[2].ok
    /\ nw.ticks >= 2
    /\ Len(tasks) >= 1

\* C13: a detached pid watcher that panics does not stop or alter the name
\* watcher: main is not taken down, the loop goes on sleeping and polling, and
\* it ends exactly on a lookup that matched nothing or failed to execute.
C13_TaskPanicIsIsolated ==
    mode = "name" /\ (\E i \in 1..Len(tasks) : tasks[i].pc = "panicked") =>
        /\ mainPc \in {"watch", "notify_end", "done"}
        /\ (mainPc = "watch" <=> nw.pc \in {"poll", "sleep"})
        /\ (nw.pc = "sleep" => ENABLED NwWake)
        /\ (nw.pc = "poll" /\ nw.ticks < MaxTicks
              /\ Len(tasks) + Cardinality(alive) <= MaxTasks => ENABLED NwPoll)
        /\ (nw.pc = "done" <=> ~nw.lastOk \/ nw.seen[nw.ticks] = {})

\* C13 witness: a task had panicked before a later tick, and at that tick the
\* name watcher fanned out again and went to sleep.
C13_Witness ==
    /\ mode = "name"
    /\ nw.afterPanic
    /\ nw.ticks >= 2
    /\ nw.pc = "sleep"
    /\ Len(tasks) > nw.before

\* C14: the non-silent pid watcher and the name watcher create one progress
\* indicator when they start and stop it exactly once, on the step on which the
\* loop is left (the Error exit of the name watcher included), never before.
C14_SpinnerStoppedOnceOnExit ==
    /\ (mode = "pid" =>
           /\ spinner.created = (IF pw.pc = "idle" THEN 0 ELSE 1)
           /\ spinner.stopped = (IF pw.pc = "done" THEN 1 ELSE 0))
    /\ (mode = "name" =>
           /\ spinner.created = (IF nw.pc = "idle" THEN 0 ELSE 1)
           /\ spinner.stopped = (IF nw.pc = "done" THEN 1 ELSE 0))

\* C14 witness: the name watcher left its loop on a lookup error after an
\* earlier tick, and its indicator is stopped.
C14_Witness ==
    /\ mode = "name"
    /\ ~nw.lastOk
    /\ nw.ticks >= 2
    /\ spinner = [created |-> 1, stopped |-> 1]

\* C15: a watch runs to its natural end: under fair scheduling, if the watched
\* pid disappears and stays gone monitor_process_by_pid eventually returns, and
\* if the pids matching the name become and stay none monitor_process_by_name
\* eventually returns; a poll that executed and found the process alive never
\* returns.
C15_WatchEndsWhenTargetGone ==
    /\ (mode = "pid" /\ EnvReady(env) =>
           (<>[](target \notin alive) => <>(pw.pc = "done")))
    /\ (mode = "name" /\ EnvReady(env) =>
           (<>[](alive = {}) => <>(nw.pc = "done")))
    /\ [](mode = "pid" /\ pw.last = "ok" /\ pw.sawAlive => pw.pc # "done")
    /\ [](mode = "name" /\ nw.ticks >= 1 /\ nw.lastOk
             /\ nw.seen[nw.ticks] # {} => nw.pc # "done")

\* Number of "has terminated" reports of the top-level pid watcher.
TerminatedReports ==
    Cardinality({i \in 1..Len(out) : out[i] = "Process with PID has terminated"})

\* C16: a pid watcher reports Terminated at most once and polls no more after
\* it; its polls are sequential, each one begun only after the sleep that
\* followed the one before.
C16_TerminatedOnceThenSilent ==
    /\ [](mode = "pid" =>
            /\ TerminatedReports = (IF pw.pc = "done" THEN 1 ELSE 0)
            /\ (pw.pc \in {"idle", "poll", "sleep"} =>
                   pw.polls = pw.sleeps /\ pw.outcome = "none")
            /\ (pw.pc = "done" =>
                   /\ pw.polls = pw.sleeps + 1
                   /\ pw.outcome = "Terminated"
                   /\ ~ENABLED PwPoll
                   /\ ~ENABLED PwWake))
    /\ [][pw.pc = "done" => pw' = pw]_vars
    /\ [][\A i \in 1..Len(tasks) :
             tasks[i].pc = "done" => tasks'[i] = tasks[i]]_vars

\* C16 witness: the top-level watcher reported Terminated on a later poll and
\* the run went on to its end.
C16_Witness ==
    /\ mode = "pid"
    /\ pw.pc = "done"
    /\ pw.polls >= 2
    /\ mainPc = "done"

\* C17: the notifier keeps no state: n calls of send_telegram_message make n
\* requests, in call order, a repeated message included.
C17_OneRequestPerCall ==
    /\ Len(notes) = Len(calls)
    /\ Msgs = calls

\* C17 witness: the same message was passed twice and two requests carry it.
C17_Witness ==
    /\ mainPc = "notifier"
    /\ Len(calls) >= 2
    /\ calls[1] = calls[2]
    /\ notes[1].msg = notes[2].msg

\* C18: in name mode the run sends two notifications, "monitoring" before the
\* name watcher starts and "have finished" after it returns, also when it
\* returned with the Error outcome.
C18_NameModeTwoNotifications ==
    mode = "name" /\ EnvReady(env) =>
        /\ (nw.pc # "idle" => Len(notes) >= 1)
        /\ (Len(notes) >= 1 => Msgs[1] = StartMsg("name"))
        /\ (nw.pc \in {"poll", "sleep"} => Len(notes) = 1)
        /\ (nw.pc = "done" => mainPc \in {"notify_end", "done"})
        /\ (Len(notes) = 2 => nw.pc = "done" /\ Msgs[2] = EndMsg("name"))
        /\ (mainPc = "done" => Len(notes) = 2)
        /\ Len(notes) <= 2

\* C18 witness: the name watcher ended with Error and the run sent both.
C18_Witness ==
    /\ mode = "name"
    /\ nw.outcome = "Error"
    /\ mainPc = "done"
    /\ Msgs = <<StartMsg("name"), EndMsg("name")>>

\* C19: the return of the name watcher depends on its own lookups alone: it
\* returns Terminated exactly on a lookup that executed and matched nothing,
\* whatever the watchers it spawned are doing, and the run ends after it.
C19_ReturnIgnoresSubWatchers ==
    mode = "name" /\ nw.ticks >= 1 =>
        /\ (nw.lastOk /\ nw.seen[nw.ticks] = {} =>
               nw.pc = "done" /\ nw.outcome = "Terminated")
        /\ (nw.outcome = "Terminated" => nw.lastOk /\ nw.seen[nw.ticks] = {})
        /\ (nw.pc = "done" => mainPc \in {"notify_end", "done"})

\* C19 witness: the name watcher returned Terminated and "have finished" was
\* sent while a watcher it spawned was still in its loop.
C19_Witness ==
    /\ mode = "name"
    /\ nw.outcome = "Terminated"
    /\ mainPc = "done"
    /\ Len(notes) = 2
    /\ \E i \in 1..Len(tasks) : tasks[i].pc \in {"poll", "sleep"}

\* Spinners of the detached watchers that are still in their loop.
RECURSIVE TaskSpinners(_)
TaskSpinners(ts) ==
    IF ts = <<>> THEN 0
    ELSE (IF Head(ts).pc \in {"poll", "sleep"} THEN Head(ts).sp ELSE 0)
         + TaskSpinners(Tail(ts))

\* C20: in every reachable state at most one progress indicator is active: the
\* watchers of the fan-out are silent and have none, exec mode creates none.
C20_AtMostOneSpinner ==
    /\ spinner.stopped <= spinner.created
    /\ (spinner.created - spinner.stopped) + TaskSpinners(tasks) <= 1
    /\ \A i \in 1..Len(tasks) : tasks[i].sp = 0
    /\ (mode = "exec" => spinner.created = 0)

\* C20 witness: the indicator of the name watcher is active while two silent
\* watchers run.
C20_Witness ==
    /\ mode = "name"
    /\ spinner = [created |-> 1, stopped |-> 0]
    /\ Len(tasks) >= 2
    /\ \A i \in 1..Len(tasks) : tasks[i].pc \in {"poll", "sleep"}

====
